---- MODULE Spec2Model ----
(***************************************************************************)
(* Documentation-freshness analyzer (scripts/content_analyzer.py) and the  *)
(* manifest builder (scripts/csv_to_outline.py).                           *)
(*                                                                         *)
(* Five specifications share the variables below:                          *)
(*   SpecFacts  the comparator compare_facts applied to pairs of fact sets *)
(*   SpecText   extract_facts followed by compare_facts on pairs of texts  *)
(*   Spec       the orchestrator analyze_mapping over a manifest and disk  *)
(*   FairSpec   Spec with weak fairness: the loop keeps taking steps       *)
(*   SpecCsv    transform_csv_to_outline over the rows of the mapping CSV  *)
(***************************************************************************)
EXTENDS Integers, Sequences, FiniteSets, TLC

VARIABLES
    pc,             \* position of the computation
    source_text,    \* text handed to extract_facts for the source side
    doc_text,       \* text handed to extract_facts for the doc side
    source_facts,   \* ExtractedFacts of the source side
    doc_facts,      \* ExtractedFacts of the doc side
    comparison,     \* dict returned by compare_facts
    outline,        \* outline["content_sections"], the manifest
    idx,            \* number of manifest entries the for loop has consumed
    frame,          \* source_content, sources_found, sources_missing of the
                    \* latest loop iteration that resolved sources
    results,        \* the results dict of analyze_mapping
    rows            \* the rows csv.DictReader yields from the mapping CSV

vars == <<pc, source_text, doc_text, source_facts, doc_facts, comparison,
          outline, idx, frame, results, rows>>

None == "None"

(***************************************************************************)
(* Bounds of the model.                                                    *)
(***************************************************************************)
MaxSections == 11       \* long source fact sets have up to this many sections
MaxBriefSections == 2   \* brief source fact sets have up to this many sections
MaxDocSections == 1     \* doc fact sets have up to this many sections
MaxLines == 3           \* texts given to extract_facts have up to this many lines
MaxEntries == 3         \* manifests have up to this many entries

(***************************************************************************)
(* Strings.  Python compares str by code point; Lexicon lists every        *)
(* string that the model sorts, in that order.                             *)
(***************************************************************************)
Lexicon ==
    << "API_KEY", "api_key", "claude-opus-4", "claude-sonnet-4",
       "claudeopus4", "default", "gpt-4", "gpt-4-turbo", "gpt4", "gpt_4",
       "id", "llama-3", "llama3", "max_tokens", "python", "setup",
       "step 01", "step 02", "step 03", "step 04", "step 05", "step 06",
       "step 07", "step 08", "step 09", "step 10", "step 11", "step 12",
       "step 13", "step 14", "streaming", "timeout", "token", "tool_use",
       "type", "usage" >>

RankOf ==
    [s \in {Lexicon[i] : i \in DOMAIN Lexicon} |->
        CHOOSE i \in DOMAIN Lexicon : Lexicon[i] = s]

Rank(s) == RankOf[s]

\* sorted(iterable) on a collection of distinct strings
sorted(S) ==
    [i \in 1..Cardinality(S) |->
        CHOOSE x \in S : Cardinality({y \in S : Rank(y) < Rank(x)}) = i - 1]

Range(seq) == {seq[i] : i \in DOMAIN seq}

(***************************************************************************)
(* class ExtractedFacts                                                    *)
(***************************************************************************)
ExtractedFacts(c, m, s, f, e) ==
    [config_keys |-> c, models |-> m, sections |-> s, features |-> f,
     env_vars |-> e]

(***************************************************************************)
(* Texts.  A text is a sequence of lines; a line is a piece of markdown    *)
(* around one word:                                                        *)
(*   cell       | `word` |          defn_bold  **word**:                   *)
(*   defn_tick  `word` -            tick       `word`                      *)
(*   prose      word                h1..h4     # word .. #### word         *)
(*   fence      ```word             blank      (empty lines)               *)
(* The regular expressions of the extractors are evaluated on the words of *)
(* Vocabulary, one table per pattern.                                      *)
(***************************************************************************)
Vocabulary ==
    { "max_tokens", "Type", "Default", "timeout", "id", "claude-opus-4",
      "GPT_4", "gpt-4", "llama-3", "streaming", "$API_KEY", "Usage",
      "Setup!", "python", "c++", "" }

Piece(k, w) == [kind |-> k, word |-> w]

\* str.lower()
str_lower(w) ==
    CASE w = "Type" -> "type"
      [] w = "Default" -> "default"
      [] w = "GPT_4" -> "gpt_4"
      [] w = "$API_KEY" -> "$api_key"
      [] w = "Usage" -> "usage"
      [] w = "Setup!" -> "setup!"
      [] OTHER -> w

\* the whole word matches [a-z][a-z0-9_]* under re.IGNORECASE
matches_identifier(w) ==
    w \in {"max_tokens", "Type", "Default", "timeout", "id", "GPT_4",
           "streaming", "Usage", "python"}

(***************************************************************************)
(* strip_code_blocks: re.sub of ```[\w]*\n.*?``` with DOTALL.  A match     *)
(* starts at a fence line whose info string is made of word characters     *)
(* (or is empty) and runs to the next ``` in the text, which is the start  *)
(* of the next fence line; what follows the ``` on that line stays.        *)
(***************************************************************************)
opens_block(p) == p.kind = "fence" /\ p.word \in {"", "python"}

\* index of the first fence line after the first line, 0 if there is none
next_fence(content) ==
    LET later == {i \in 2..Len(content) : content[i].kind = "fence"}
    IN  IF later = {} THEN 0
        ELSE CHOOSE i \in later : \A j \in later : i <= j

RECURSIVE strip_code_blocks(_)
strip_code_blocks(content) ==
    IF content = <<>> THEN <<>>
    ELSE IF opens_block(Head(content)) /\ next_fence(content) # 0
         THEN LET j == next_fence(content)
              IN  <<Piece("prose", content[j].word)>>
                  \o strip_code_blocks(SubSeq(content, j + 1, Len(content)))
         ELSE <<Head(content)>> \o strip_code_blocks(Tail(content))

noise ==
    { "true", "false", "null", "none", "type", "value", "default", "string",
      "int", "bool", "float", "description", "example", "title", "name",
      "config", "module", "source", "providers" }

\* the keys one pattern finds: the lowercased words of the lines of the
\* given kinds, kept when longer than 2
pattern_keys(clean_content, kinds) ==
    { key \in { str_lower(p.word) :
                  p \in {q \in Range(clean_content) :
                            q.kind \in kinds /\ matches_identifier(q.word)} } :
        Len(key) > 2 }

\* the noise filter is left out
extract_config_keys_unfiltered(content) ==
    LET clean_content == strip_code_blocks(content)
    IN  pattern_keys(clean_content, {"cell"})
        \cup pattern_keys(clean_content, {"defn_bold", "defn_tick"})

extract_config_keys(content) ==
    LET clean_content == strip_code_blocks(content)
        keys == pattern_keys(clean_content, {"cell"})
                \cup pattern_keys(clean_content, {"defn_bold", "defn_tick"})
    IN  {k \in keys : k \notin noise}

\* claude[-_]?([a-z]+)[-_]?(\d+[-_]?\d*), normalized
claude_pattern(w) ==
    CASE w = "claude-opus-4" -> {"claude-opus-4"}
      [] OTHER -> {}

\* gpt[-_]?(\d+(?:[-_]?turbo)?(?:[-_]?preview)?), normalized
gpt_pattern(w) ==
    CASE w \in {"GPT_4", "gpt-4"} -> {"gpt-4"}
      [] OTHER -> {}

\* `([a-z]+-[a-z0-9-]+)` naming one of claude, gpt, llama, mistral
backtick_pattern(p) ==
    IF /\ p.kind \in {"cell", "defn_tick", "tick"}
       /\ p.word \in {"claude-opus-4", "gpt-4", "llama-3"}
    THEN {p.word}
    ELSE {}

extract_models(content) ==
    UNION { claude_pattern(p.word) \cup gpt_pattern(p.word)
            \cup backtick_pattern(p) : p \in Range(content) }

\* heading.strip().lower() without the characters [^\w\s]
normalize_heading(w) ==
    CASE w = "claude-opus-4" -> "claudeopus4"
      [] w = "gpt-4" -> "gpt4"
      [] w = "llama-3" -> "llama3"
      [] w = "$API_KEY" -> "api_key"
      [] w = "Setup!" -> "setup"
      [] w = "c++" -> "c"
      [] OTHER -> str_lower(w)

extract_sections(content) ==
    { heading \in { normalize_heading(p.word) :
                      p \in {q \in Range(content) : q.kind \in {"h2", "h3"}} } :
        Len(heading) > 2 }

\* the feature keywords that occur in the lowercased word
feature_keywords(w) ==
    CASE w = "streaming" -> {"streaming"}
      [] w = "max_tokens" -> {"token"}
      [] OTHER -> {}

extract_features(content) ==
    UNION { feature_keywords(p.word) : p \in Range(content) }

\* \$([A-Z][A-Z0-9_]+), \$\{([A-Z][A-Z0-9_]+)\}, export\s+([A-Z][A-Z0-9_]+)
env_var_patterns(w) ==
    CASE w = "$API_KEY" -> {"API_KEY"}
      [] OTHER -> {}

extract_env_vars(content) ==
    UNION { env_var_patterns(p.word) : p \in Range(content) }

extract_facts(content) ==
    ExtractedFacts(extract_config_keys(content), extract_models(content),
                   extract_sections(content), extract_features(content),
                   extract_env_vars(content))

(***************************************************************************)
(* compare_facts.  list(missing_sections)[:10] takes the first ten         *)
(* elements in the iteration order of a set of str, which depends on the   *)
(* per-process string hash seed: every ten-element subset is a possible    *)
(* outcome.                                                                *)
(***************************************************************************)
SectionsShown == 10

\* the list is not cut
list_slice_uncut(S) == {S}

list_slice(S) ==
    IF Cardinality(S) <= SectionsShown
    THEN {S}
    ELSE {T \in SUBSET S : Cardinality(T) = SectionsShown}

\* operands swapped
missing_config_swapped(sf, df) == df.config_keys \ sf.config_keys

missing_config(sf, df) == sf.config_keys \ df.config_keys
extra_config(sf, df) == df.config_keys \ sf.config_keys
missing_models(sf, df) == sf.models \ df.models
\* the difference is not taken
extra_models_unfiltered(sf, df) == df.models

extra_models(sf, df) == df.models \ sf.models
missing_sections(sf, df) == sf.sections \ df.sections
missing_features(sf, df) == sf.features \ df.features

\* keys found only in the doc are scored too
staleness_score_extra_config(sf, df) ==
    3 * Cardinality(missing_config(sf, df))
    + 3 * Cardinality(extra_config(sf, df))
    + 3 * Cardinality(missing_models(sf, df))
    + 3 * Cardinality(extra_models(sf, df))
    + 2 * Cardinality(missing_sections(sf, df))
    + 1 * Cardinality(missing_features(sf, df))

staleness_score(sf, df) ==
    3 * Cardinality(missing_config(sf, df))
    + 3 * Cardinality(missing_models(sf, df))
    + 3 * Cardinality(extra_models(sf, df))
    + 2 * Cardinality(missing_sections(sf, df))
    + 1 * Cardinality(missing_features(sf, df))

\* only the score threshold decides
is_stale_threshold_only(sf, df, score) == score >= 5

is_stale(sf, df, score) ==
    \/ Cardinality(missing_config(sf, df)) >= 1
    \/ Cardinality(missing_models(sf, df)) >= 1
    \/ Cardinality(extra_models(sf, df)) >= 1
    \/ score >= 5

fact_counts(facts) ==
    [config_keys |-> Cardinality(facts.config_keys),
     models |-> Cardinality(facts.models),
     sections |-> Cardinality(facts.sections),
     features |-> Cardinality(facts.features)]

compare_facts(sf, df) ==
    LET score == staleness_score(sf, df)
    IN  { [staleness_score |-> score,
           is_stale |-> is_stale(sf, df, score),
           missing_config_keys |-> sorted(missing_config(sf, df)),
           extra_config_keys |-> sorted(extra_config(sf, df)),
           missing_models |-> sorted(missing_models(sf, df)),
           extra_models |-> sorted(extra_models(sf, df)),
           missing_sections |-> sorted(shown),
           missing_features |-> sorted(missing_features(sf, df)),
           source_facts |-> fact_counts(sf),
           doc_facts |-> fact_counts(df)]
          : shown \in list_slice(missing_sections(sf, df)) }

(***************************************************************************)
(* SpecFacts: compare_facts on pairs of fact sets.                         *)
(***************************************************************************)
ConfigKeyNames == {"max_tokens", "timeout"}
ModelNames == {"claude-opus-4", "gpt-4"}
FeatureNames == {"streaming"}
EnvVarNames == {"API_KEY"}
DocConfigKeyNames == {"timeout"}
DocModelNames == {"gpt-4"}
SectionNames ==
    << "step 01", "step 02", "step 03", "step 04", "step 05", "step 06",
       "step 07", "step 08", "step 09", "step 10", "step 11", "step 12",
       "step 13", "step 14" >>

FirstSections(n) == {SectionNames[i] : i \in 1..n}

\* brief documents: every combination of the small vocabularies
BriefSourceFacts ==
    { ExtractedFacts(c, m, FirstSections(n), f, e) :
        c \in SUBSET ConfigKeyNames, m \in SUBSET ModelNames,
        n \in 0..MaxBriefSections, f \in SUBSET FeatureNames,
        e \in SUBSET EnvVarNames }

BriefDocFacts ==
    { ExtractedFacts(c, m, FirstSections(n), f, e) :
        c \in SUBSET DocConfigKeyNames, m \in SUBSET DocModelNames,
        n \in 0..MaxDocSections, f \in SUBSET FeatureNames,
        e \in SUBSET EnvVarNames }

\* long sources: many headings, compared with docs that have few of them
LongSourceFacts ==
    { ExtractedFacts(c, m, FirstSections(n), FeatureNames, {}) :
        c \in {{}, {"max_tokens"}}, m \in {{}, {"claude-opus-4"}},
        n \in (MaxBriefSections + 1)..MaxSections }

LongDocFacts ==
    { ExtractedFacts(DocConfigKeyNames, m, FirstSections(n), {}, EnvVarNames) :
        m \in SUBSET DocModelNames, n \in 0..MaxDocSections }

FactPairs ==
    (BriefSourceFacts \X BriefDocFacts) \cup (LongSourceFacts \X LongDocFacts)

NoResults == [summary |-> None]

InitFacts ==
    /\ pc = "facts"
    /\ source_text = <<>>
    /\ doc_text = <<>>
    /\ \E p \in FactPairs : source_facts = p[1] /\ doc_facts = p[2]
    /\ comparison = None
    /\ outline = <<>>
    /\ idx = 0
    /\ frame = None
    /\ results = NoResults
    /\ rows = <<>>

\* comparison = compare_facts(source_facts, doc_facts)
CompareFacts ==
    /\ pc = "facts"
    /\ comparison' \in compare_facts(source_facts, doc_facts)
    /\ pc' = "compared"
    /\ UNCHANGED <<source_text, doc_text, source_facts, doc_facts,
                   outline, idx, frame, results,
                   rows>>

\* a second evaluation of compare_facts on the same fact sets
CompareFactsAgain ==
    /\ pc = "compared"
    /\ comparison' \in compare_facts(source_facts, doc_facts)
    /\ pc' = "recompared"
    /\ UNCHANGED <<source_text, doc_text, source_facts, doc_facts,
                   outline, idx, frame, results,
                   rows>>

NextFacts == CompareFacts \/ CompareFactsAgain

SpecFacts == InitFacts /\ [][NextFacts]_vars

(***************************************************************************)
(* SpecText: extract_facts on a source text and a doc text, then           *)
(* compare_facts on the two fact sets.  The doc text is the source text    *)
(* or the source text with one line left out.                              *)
(***************************************************************************)
TextLines ==
    { Piece("cell", "max_tokens"), Piece("cell", "Type"), Piece("cell", "id"),
      Piece("defn_bold", "Default"), Piece("prose", "claude-opus-4"),
      Piece("h2", "Usage"), Piece("fence", "python"), Piece("fence", "c++"),
      Piece("fence", "") }

RECURSIVE TextsOfLength(_)
TextsOfLength(n) ==
    IF n = 0 THEN {<<>>}
    ELSE {Append(t, p) : t \in TextsOfLength(n - 1), p \in TextLines}

Texts == UNION {TextsOfLength(n) : n \in 0..MaxLines}

without_line(t, i) == SubSeq(t, 1, i - 1) \o SubSeq(t, i + 1, Len(t))

InitText ==
    /\ pc = "text"
    /\ source_text \in Texts
    /\ doc_text \in {source_text}
                    \cup {without_line(source_text, i) : i \in DOMAIN source_text}
    /\ source_facts = None
    /\ doc_facts = None
    /\ comparison = None
    /\ outline = <<>>
    /\ idx = 0
    /\ frame = None
    /\ results = NoResults
    /\ rows = <<>>

\* source_facts = extract_facts(source_content); doc_facts = extract_facts(doc_content)
ExtractFacts ==
    /\ pc = "text"
    /\ source_facts' = extract_facts(source_text)
    /\ doc_facts' = extract_facts(doc_text)
    /\ pc' = "facts"
    /\ UNCHANGED <<source_text, doc_text, comparison, outline, idx, frame,
                   results,
                   rows>>

NextText == ExtractFacts \/ CompareFacts \/ CompareFactsAgain

SpecText == InitText /\ [][NextText]_vars

(***************************************************************************)
(* The disk read by analyze_mapping: the files below docs_dir and below    *)
(* repos_dir, each with its text.                                          *)
(***************************************************************************)
Blank == Piece("blank", "")

ReadmeText ==
    <<Piece("cell", "max_tokens"), Piece("prose", "claude-opus-4"),
      Piece("h2", "Usage")>>

\* docs_dir: a.md agrees with the README, b.md lacks its key and model,
\* c.md lacks its heading
DocFiles ==
    [p \in {"a.md", "b.md", "c.md"} |->
        CASE p = "a.md" -> <<Piece("h2", "Usage"), Piece("cell", "max_tokens"),
                             Piece("prose", "claude-opus-4")>>
          [] p = "b.md" -> <<Piece("h2", "Usage")>>
          [] p = "c.md" -> <<Piece("cell", "max_tokens"),
                             Piece("prose", "claude-opus-4")>>]

\* repos_dir: one repository with a README, an empty file, six files
\* src/*.py and two files lib/*.py
SrcFiles ==
    {"core/src/f1.py", "core/src/f2.py", "core/src/f3.py", "core/src/f4.py",
     "core/src/f5.py", "core/src/f6.py"}

LibFiles == {"core/lib/g1.py", "core/lib/g2.py"}

RepoFiles ==
    [p \in {"core/README.md", "core/empty.md"} \cup SrcFiles \cup LibFiles |->
        CASE p = "core/README.md" -> ReadmeText
          [] p = "core/empty.md" -> <<>>
          [] p = "core/src/f1.py" -> <<Piece("tick", "gpt-4")>>
          [] p = "core/lib/g1.py" -> <<Piece("cell", "max_tokens")>>
          [] p = "core/lib/g2.py" -> <<Piece("prose", "claude-opus-4")>>
          [] OTHER -> <<Piece("h2", "Usage")>>]

\* the files a pattern matches
glob_matches(pattern) ==
    CASE pattern = "core/src/*.py" -> SrcFiles
      [] pattern = "core/lib/*.py" -> LibFiles
      [] OTHER -> {}

\* the lists that hold every element of S once
RECURSIVE Orderings(_)
Orderings(S) ==
    IF S = {} THEN {<<>>}
    ELSE UNION { {<<x>> \o m : m \in Orderings(S \ {x})} : x \in S }

\* glob.glob(pattern): the matches in the order the directory lists them,
\* which glob does not sort
glob ==
    [pattern \in {"core/src/*.py", "core/lib/*.py", "core/none/*.py"} |->
        Orderings(glob_matches(pattern))]

\* "*" in path
has_wildcard(path) == path \in {"src/*.py", "lib/*.py", "none/*.py"}

\* doc_path.startswith("docs/")
startswith_docs(doc_path) ==
    doc_path \in {"docs/a.md", "docs/b.md", "docs/gone.md"}

\* doc_path[5:]
drop_prefix(doc_path) ==
    CASE doc_path = "docs/a.md" -> "a.md"
      [] doc_path = "docs/b.md" -> "b.md"
      [] doc_path = "docs/gone.md" -> "gone.md"

full_doc_path(doc_path) ==
    IF startswith_docs(doc_path) THEN drop_prefix(doc_path) ELSE doc_path

(***************************************************************************)
(* The manifest.  An entry is a dict; a key the entry does not have is     *)
(* None here and section.get supplies the default.                         *)
(***************************************************************************)
Source(repo, path) == [repo |-> repo, path |-> path]

Section(doc_path, sources, relationship_type, priority) ==
    [id |-> None, doc_path |-> doc_path, sources |-> sources,
     relationship_type |-> relationship_type, priority |-> priority]

Readme == Source("core", "README.md")
Empty == Source("core", "empty.md")
Gone == Source("core", "gone.md")
SrcGlob == Source("core", "src/*.py")
LibGlob == Source("core", "lib/*.py")
NoneGlob == Source("core", "none/*.py")

SectionTemplates ==
    { Section("docs/a.md", <<Readme>>, "N/A", "high"),
      Section("docs/gone.md", <<>>, "DIRECT", "low"),
      Section("docs/gone.md", <<Readme>>, "DIRECT", "high"),
      Section("docs/gone.md", <<Gone>>, None, None),
      Section("docs/a.md", <<Gone>>, "DIRECT", "high"),
      Section("docs/a.md", <<NoneGlob, Gone>>, "REFERENCE", "low"),
      Section("docs/a.md", <<Empty>>, "DIRECT", "medium"),
      Section("docs/a.md", <<Gone, Readme, NoneGlob>>, "DERIVED", "low"),
      Section("docs/b.md", <<LibGlob>>, "DIRECT", "medium"),
      Section("docs/b.md", <<Readme>>, "REFERENCE", "low"),
      Section("c.md", <<Readme>>, "DIRECT", "high"),
      Section("c.md", <<SrcGlob, Empty>>, "DERIVED", "high") }

SectionIds == <<"s1", "s2", "s3", "s4", "s5">>

Outlines ==
    UNION { { [i \in 1..n |-> [t[i] EXCEPT !.id = SectionIds[i]]] :
                t \in [1..n -> SectionTemplates] } : n \in 0..MaxEntries }

\* dict.get(key, default)
get(section, key, default) ==
    IF section[key] = None THEN default ELSE section[key]

relationship_of(section) == get(section, "relationship_type", "DERIVED")
priority_of(section) == get(section, "priority", "medium")

(***************************************************************************)
(* analyze_mapping                                                         *)
(***************************************************************************)
NewResults ==
    [summary |-> [total_sections |-> 0, analyzed |-> 0, stale |-> 0,
                  healthy |-> 0, missing_doc |-> 0, missing_source |-> 0],
     stale_docs |-> <<>>, healthy_docs |-> <<>>, missing_docs |-> <<>>]

\* entries without sources are not skipped
is_skipped_na_only(section) == relationship_of(section) = "N/A"

\* relationship == "N/A" or not sources
is_skipped(section) ==
    relationship_of(section) = "N/A" \/ section.sources = <<>>

\* full_doc_path.exists()
doc_exists(section) == full_doc_path(section.doc_path) \in DOMAIN DocFiles

\* the record carries the default priority
missing_doc_record_default_priority(section) ==
    [section_id |-> section.id, doc_path |-> section.doc_path,
     priority |-> "medium"]

missing_doc_record(section) ==
    [section_id |-> section.id, doc_path |-> section.doc_path,
     priority |-> priority_of(section)]

\* the separator is not appended
append_file_bare(source_content, file) == source_content \o RepoFiles[file]

\* source_content += Path(...).read_text() + "\n\n"
append_file(source_content, file) ==
    source_content \o RepoFiles[file] \o <<Blank>>

RECURSIVE append_files(_, _)
append_files(source_content, files) ==
    IF files = <<>> THEN source_content
    ELSE append_files(append_file(source_content, Head(files)), Tail(files))

GlobLimit == 5

\* every match is read
first_matches_uncut(matches) == matches

\* matches[:5]
first_matches(matches) ==
    SubSeq(matches, 1, IF Len(matches) < GlobLimit THEN Len(matches) ELSE GlobLimit)

NewFrame == [source_content |-> <<>>, sources_found |-> 0, sources_missing |-> <<>>]

found(locals, source_content) ==
    [locals EXCEPT !.source_content = source_content,
                   !.sources_found = @ + 1]

not_found(locals, source) ==
    [locals EXCEPT !.sources_missing = Append(@, source.repo \o "/" \o source.path)]

\* after a missing source the later ones are not looked at
resolve_source_until_missing(locals, source) ==
    LET target == source.repo \o "/" \o source.path
    IN  IF locals.sources_missing # <<>> THEN {locals}
        ELSE IF has_wildcard(source.path)
        THEN { IF matches # <<>>
               THEN found(locals, append_files(locals.source_content,
                                               first_matches(matches)))
               ELSE not_found(locals, source) : matches \in glob[target] }
        ELSE IF target \in DOMAIN RepoFiles
             THEN {found(locals, append_file(locals.source_content, target))}
             ELSE {not_found(locals, source)}

\* one iteration of the loop over sources; a set because of glob's order
resolve_source(locals, source) ==
    LET target == source.repo \o "/" \o source.path
    IN  IF has_wildcard(source.path)
        THEN { IF matches # <<>>
               THEN found(locals, append_files(locals.source_content,
                                               first_matches(matches)))
               ELSE not_found(locals, source) : matches \in glob[target] }
        ELSE IF target \in DOMAIN RepoFiles
             THEN {found(locals, append_file(locals.source_content, target))}
             ELSE {not_found(locals, source)}

\* the loop over the first n sources
RECURSIVE resolve_sources(_, _)
resolve_sources(sources, n) ==
    IF n = 0 THEN {NewFrame}
    ELSE UNION { resolve_source(locals, sources[n]) :
                    locals \in resolve_sources(sources, n - 1) }

\* the loop over all sources of each manifest entry
resolved ==
    [sources \in {t.sources : t \in SectionTemplates} |->
        resolve_sources(sources, Len(sources))]

first_items(seq, n) == SubSeq(seq, 1, IF Len(seq) < n THEN Len(seq) ELSE n)

Reason(label, items) == [label |-> label, items |-> items]

staleness_reasons(c) ==
    (IF c.missing_config_keys # <<>>
     THEN <<Reason("Missing config", first_items(c.missing_config_keys, 5))>>
     ELSE <<>>)
    \o (IF c.missing_models # <<>>
        THEN <<Reason("Missing models", c.missing_models)>> ELSE <<>>)
    \o (IF c.extra_models # <<>>
        THEN <<Reason("Outdated models", c.extra_models)>> ELSE <<>>)
    \o (IF c.missing_features # <<>>
        THEN <<Reason("Missing features", first_items(c.missing_features, 3))>>
        ELSE <<>>)

result_entry(section, locals, c) ==
    [section_id |-> section.id, doc_path |-> section.doc_path,
     relationship |-> relationship_of(section),
     priority |-> priority_of(section),
     sources_found |-> locals.sources_found,
     sources_missing |-> locals.sources_missing,
     comparison |-> c, is_stale |-> c.is_stale,
     staleness_reasons |-> staleness_reasons(c)]

\* priority_order.get(x["priority"], 1)
priority_order(priority) ==
    CASE priority = "high" -> 0
      [] priority = "medium" -> 1
      [] priority = "low" -> 2
      [] OTHER -> 1

sort_key(x) == <<priority_order(x.priority), -x.comparison.staleness_score>>

key_less(a, b) == a[1] < b[1] \/ (a[1] = b[1] /\ a[2] < b[2])

\* of two elements with the same key the later one comes first
list_sort_ties_reversed(seq) ==
    LET before(i) ==
            {j \in DOMAIN seq :
                \/ key_less(sort_key(seq[j]), sort_key(seq[i]))
                \/ sort_key(seq[j]) = sort_key(seq[i]) /\ j > i}
    IN  [k \in DOMAIN seq |->
            seq[CHOOSE i \in DOMAIN seq : Cardinality(before(i)) = k - 1]]

\* list.sort(key=...), which is stable: an element comes behind those with
\* a smaller key and behind those with the same key that came before it
list_sort(seq) ==
    LET before(i) ==
            {j \in DOMAIN seq :
                \/ key_less(sort_key(seq[j]), sort_key(seq[i]))
                \/ sort_key(seq[j]) = sort_key(seq[i]) /\ j < i}
    IN  [k \in DOMAIN seq |->
            seq[CHOOSE i \in DOMAIN seq : Cardinality(before(i)) = k - 1]]

Init ==
    /\ pc = "start"
    /\ source_text = <<>>
    /\ doc_text = <<>>
    /\ source_facts = None
    /\ doc_facts = None
    /\ comparison = None
    /\ outline = <<>>
    /\ idx = 0
    /\ frame = None
    /\ results = NoResults
    /\ rows = <<>>

\* outline = json.load(f); results = {...}
LoadOutline ==
    /\ pc = "start"
    /\ outline' \in Outlines
    /\ results' = NewResults
    /\ pc' = "loop"
    /\ UNCHANGED <<source_text, doc_text, source_facts, doc_facts, comparison,
                   idx, frame,
                   rows>>

InLoop == pc = "loop" /\ idx < Len(outline)

\* the entry the loop body runs on
section == outline[idx + 1]

count(summary, key) == [summary EXCEPT ![key] = @ + 1]

LoopVars == <<pc, source_text, doc_text, source_facts, doc_facts, comparison,
               outline, rows>>

\* total_sections += 1; the entry is skipped
SkipSection ==
    /\ InLoop
    /\ is_skipped(section)
    /\ results' = [results EXCEPT !.summary = count(@, "total_sections")]
    /\ idx' = idx + 1
    /\ UNCHANGED frame
    /\ UNCHANGED LoopVars

\* the missing doc ends the run
MissingDoc_abort ==
    /\ InLoop
    /\ ~is_skipped(section)
    /\ ~doc_exists(section)
    /\ results' =
         [results EXCEPT
            !.summary = count(count(@, "total_sections"), "missing_doc"),
            !.missing_docs = Append(@, missing_doc_record(section))]
    /\ idx' = idx + 1
    /\ pc' = "done"
    /\ UNCHANGED <<source_text, doc_text, source_facts, doc_facts, comparison,
                   outline, frame,
                   rows>>

\* total_sections += 1; the doc file does not exist
MissingDoc ==
    /\ InLoop
    /\ ~is_skipped(section)
    /\ ~doc_exists(section)
    /\ results' =
         [results EXCEPT
            !.summary = count(count(@, "total_sections"), "missing_doc"),
            !.missing_docs = Append(@, missing_doc_record(section))]
    /\ idx' = idx + 1
    /\ UNCHANGED frame
    /\ UNCHANGED LoopVars

\* the entry is not counted as missing_source
MissingSource_uncounted ==
    /\ InLoop
    /\ ~is_skipped(section)
    /\ doc_exists(section)
    /\ \E locals \in resolved[section.sources] :
          /\ locals.source_content = <<>>
          /\ frame' = locals
    /\ results' = [results EXCEPT !.summary = count(@, "total_sections")]
    /\ idx' = idx + 1
    /\ UNCHANGED LoopVars

\* total_sections += 1; the sources are resolved and give no content
MissingSource ==
    /\ InLoop
    /\ ~is_skipped(section)
    /\ doc_exists(section)
    /\ \E locals \in resolved[section.sources] :
          /\ locals.source_content = <<>>
          /\ frame' = locals
    /\ results' =
         [results EXCEPT
            !.summary = count(count(@, "total_sections"), "missing_source")]
    /\ idx' = idx + 1
    /\ UNCHANGED LoopVars

\* total_sections += 1; the entry is analyzed and filed as stale or healthy
AnalyzeSection ==
    /\ InLoop
    /\ ~is_skipped(section)
    /\ doc_exists(section)
    /\ \E locals \in resolved[section.sources] :
          /\ locals.source_content # <<>>
          /\ frame' = locals
          /\ \E sf \in {extract_facts(locals.source_content)},
                df \in {extract_facts(DocFiles[full_doc_path(section.doc_path)])} :
             \E c \in compare_facts(sf, df) :
                LET entry == result_entry(section, locals, c)
                    counted == count(count(results.summary, "total_sections"),
                                     "analyzed")
                IN  results' =
                      IF c.is_stale
                      THEN [results EXCEPT
                              !.summary = count(counted, "stale"),
                              !.stale_docs = Append(@, entry)]
                      ELSE [results EXCEPT
                              !.summary = count(counted, "healthy"),
                              !.healthy_docs = Append(@, entry)]
    /\ idx' = idx + 1
    /\ UNCHANGED LoopVars

\* the loop is over: results["stale_docs"].sort(...); return results
SortStaleDocs ==
    /\ pc = "loop"
    /\ idx = Len(outline)
    /\ results' = [results EXCEPT !.stale_docs = list_sort(@)]
    /\ pc' = "done"
    /\ UNCHANGED <<source_text, doc_text, source_facts, doc_facts, comparison,
                   outline, idx, frame,
                   rows>>

Next ==
    \/ LoadOutline
    \/ SkipSection
    \/ MissingDoc
    \/ MissingSource
    \/ AnalyzeSection
    \/ SortStaleDocs

Spec == Init /\ [][Next]_vars

\* the run is a loop without waiting: every enabled step is taken
FairSpec == Spec /\ WF_vars(Next)

(***************************************************************************)
(* SpecCsv: scripts/csv_to_outline.py, which builds the manifest from the  *)
(* rows of the mapping CSV.  A documentation path is a sequence of tokens, *)
(* the string being their concatenation; no token starts with the first    *)
(* character of another, and "docs/" and ".md" occur in a path only as     *)
(* tokens, so str.replace acts token by token.                             *)
(***************************************************************************)
MaxRows == 3

PathTokens == {"docs/", ".md", "/", "-", "api", "b", "index"}

RECURSIVE str_join(_)
str_join(tokens) ==
    IF tokens = <<>> THEN "" ELSE Head(tokens) \o str_join(Tail(tokens))

\* str.replace(old, new) for a token old; new is a sequence of tokens
RECURSIVE str_replace(_, _, _)
str_replace(tokens, old, new) ==
    IF tokens = <<>> THEN <<>>
    ELSE (IF Head(tokens) = old THEN new ELSE <<Head(tokens)>>)
         \o str_replace(Tail(tokens), old, new)

\* id_str.endswith("-index")
endswith_index(id_str) ==
    /\ Len(id_str) >= 2
    /\ id_str[Len(id_str) - 1] = "-"
    /\ id_str[Len(id_str)] = "index"

generate_id(doc_path) ==
    LET path == str_replace(str_replace(doc_path, "docs/", <<>>), ".md", <<>>)
        id_str == str_replace(path, "/", <<"-">>)
    IN  IF endswith_index(id_str)
        THEN str_join(SubSeq(id_str, 1, Len(id_str) - 2))
        ELSE str_join(id_str)

\* doc_path.replace("docs/", "").split("/")[0]
extract_category(doc_path) ==
    LET path == str_replace(doc_path, "docs/", <<>>)
        slashes == {i \in DOMAIN path : path[i] = "/"}
        first == IF slashes = {} THEN Len(path) + 1
                 ELSE CHOOSE i \in slashes : \A j \in slashes : i <= j
    IN  str_join(SubSeq(path, 1, first - 1))

\* the source type parse_sources derives from the ending of the path
source_type(path) ==
    CASE path = "src/*.py" -> "python"
      [] path = "README.md" -> "readme"
      [] path = "docs/guide.md" -> "markdown"
      [] path = "bundle.yaml" -> "yaml"
      [] OTHER -> "other"

\* parse_sources: source_str is "N/A" or the list source_str.split("|"),
\* each item stripped and split at its first "/" (an empty string is the
\* empty list); items that are blank or have no "/" are left out
RECURSIVE parse_items(_)
parse_items(items) ==
    IF items = <<>> THEN <<>>
    ELSE LET parts == Head(items)
         IN  (IF Len(parts) < 2 THEN <<>>
              ELSE <<[repo |-> parts[1], path |-> parts[2],
                      type |-> source_type(parts[2]), required |-> TRUE]>>)
             \o parse_items(Tail(items))

parse_sources(source_str) ==
    IF source_str = "N/A" \/ source_str = <<>> THEN <<>>
    ELSE parse_items(source_str)

get_priority(relationship_type, category) ==
    IF relationship_type = "DIRECT" THEN "high"
    ELSE IF category \in {"architecture", "getting_started", "developer"}
         THEN "high"
    ELSE IF category \in {"api", "modules"} THEN "medium"
    ELSE "low"

\* the section transform_csv_to_outline builds from one row: the fields
\* the analyzer reads, and the category
csv_section(row) ==
    LET category == extract_category(row.page)
    IN  [id |-> generate_id(row.page),
         doc_path |-> str_join(row.page),
         category |-> category,
         relationship_type |-> row.relationship_type,
         sources |-> parse_sources(row.source_files),
         priority |-> get_priority(row.relationship_type, category)]

\* the summary statistics of the outline, one count per value of a field
count_by(sections, field) ==
    [k \in {sections[i][field] : i \in DOMAIN sections} |->
        Cardinality({i \in DOMAIN sections : sections[i][field] = k})]

outline_summary(sections) ==
    [total_sections |-> Len(sections),
     by_relationship_type |-> count_by(sections, "relationship_type"),
     by_category |-> count_by(sections, "category"),
     by_priority |-> count_by(sections, "priority")]

Row(page, source_files, relationship_type) ==
    [page |-> page, source_files |-> source_files,
     relationship_type |-> relationship_type]

DocPage(name) == <<"docs/">> \o name \o <<".md">>

CsvRows ==
    { Row(DocPage(<<"api", "/", "b">>), <<<<"core", "README.md">>>>, "DIRECT"),
      Row(DocPage(<<"api", "-", "b">>), <<<<"core", "src/*.py">>>>, "DERIVED"),
      Row(DocPage(<<"api", "/", "index">>),
          <<<<"core", "docs/guide.md">>, <<>>, <<"core">>>>, "REFERENCE"),
      Row(DocPage(<<"api">>), <<<<"core", "bundle.yaml">>>>, "DERIVED"),
      Row(DocPage(<<"index">>), "N/A", "N/A"),
      Row(DocPage(<<"b">>), <<>>, "N/A"),
      Row(DocPage(<<"b", "/", "api">>), <<<<"core", "LICENSE">>>>, "DERIVED"),
      Row(DocPage(<<"api", "/", "b">>), <<<<"core", "src/*.py">>>>, "DERIVED") }

RECURSIVE RowLists(_)
RowLists(n) ==
    IF n = 0 THEN {<<>>}
    ELSE {Append(l, r) : l \in RowLists(n - 1), r \in CsvRows}

InitCsv ==
    /\ pc = "csv"
    /\ rows \in UNION {RowLists(n) : n \in 0..MaxRows}
    /\ source_text = <<>>
    /\ doc_text = <<>>
    /\ source_facts = None
    /\ doc_facts = None
    /\ comparison = None
    /\ outline = <<>>
    /\ idx = 0
    /\ frame = None
    /\ results = NoResults

\* for row in reader: sections.append(section)
ReadRow ==
    /\ pc = "csv"
    /\ idx < Len(rows)
    /\ outline' = Append(outline, csv_section(rows[idx + 1]))
    /\ idx' = idx + 1
    /\ UNCHANGED <<pc, source_text, doc_text, source_facts, doc_facts,
                   comparison, frame, results, rows>>

\* the outline is built around the sections, with its summary, and written
WriteOutline ==
    /\ pc = "csv"
    /\ idx = Len(rows)
    /\ results' = [summary |-> outline_summary(outline)]
    /\ pc' = "written"
    /\ UNCHANGED <<source_text, doc_text, source_facts, doc_facts,
                   comparison, outline, idx, frame, rows>>

NextCsv == ReadRow \/ WriteOutline

SpecCsv == InitCsv /\ [][NextCsv]_vars

(***************************************************************************)
(* Properties of compare_facts (SpecFacts).                                *)
(***************************************************************************)
Compared == pc \in {"compared", "recompared"}

OnlyIn(A, B) == Cardinality({x \in A : x \notin B})

\* C1: the score is 3 per config key missing from the doc, 3 per model
\* missing from the doc, 3 per model only in the doc, 2 per section missing
\* from the doc and 1 per feature missing from the doc, over the full
\* differences; keys only in the doc and env vars add nothing.
C1_ScoreFormula ==
    Compared =>
        comparison.staleness_score =
            3 * OnlyIn(source_facts.config_keys, doc_facts.config_keys)
            + 3 * OnlyIn(source_facts.models, doc_facts.models)
            + 3 * OnlyIn(doc_facts.models, source_facts.models)
            + 2 * OnlyIn(source_facts.sections, doc_facts.sections)
            + 1 * OnlyIn(source_facts.features, doc_facts.features)

\* every category contributes, the doc has a key and an env var of its own,
\* and more sections are missing than the report lists
C1_Witness ==
    /\ pc = "compared"
    /\ source_facts.config_keys = {"max_tokens"}
    /\ doc_facts.config_keys = {"timeout"}
    /\ source_facts.models = {"claude-opus-4"}
    /\ doc_facts.models = {"gpt-4"}
    /\ Cardinality(source_facts.sections) = 11 /\ doc_facts.sections = {}
    /\ source_facts.features = {"streaming"} /\ doc_facts.features = {}
    /\ source_facts.env_vars = {} /\ doc_facts.env_vars = {"API_KEY"}
    /\ comparison.staleness_score = 32

\* C2: is_stale holds exactly when a config key or a model is missing from
\* the doc, or the doc names a model the source does not, or the score is at
\* least 5.
C2_StaleIff ==
    Compared =>
        (comparison.is_stale <=>
            \/ \E k \in source_facts.config_keys : k \notin doc_facts.config_keys
            \/ \E m \in source_facts.models : m \notin doc_facts.models
            \/ \E m \in doc_facts.models : m \notin source_facts.models
            \/ comparison.staleness_score >= 5)

\* a single model discrepancy, score below 5, stale
C2_Witness ==
    /\ pc = "compared"
    /\ source_facts.models = {"gpt-4"}
    /\ doc_facts.models = {}
    /\ comparison.staleness_score = 3
    /\ comparison.is_stale

\* the source facts with one more config key
with_config_key(facts, k) ==
    [facts EXCEPT !.config_keys = @ \cup {k}]

FreshKeys ==
    ConfigKeyNames \ (source_facts.config_keys \cup doc_facts.config_keys)

\* C4: adding to the source a config key that neither side has makes
\* missing_config_keys strictly longer, does not lower the score and does
\* not turn a stale verdict into a healthy one.
C4_Monotone ==
    Compared =>
        \A k \in FreshKeys :
            \A r \in compare_facts(with_config_key(source_facts, k), doc_facts) :
                /\ Len(r.missing_config_keys) > Len(comparison.missing_config_keys)
                /\ r.staleness_score >= comparison.staleness_score
                /\ comparison.is_stale => r.is_stale

\* a healthy comparison with a key already shared and a fresh key to add
C4_Witness ==
    /\ pc = "compared"
    /\ source_facts.config_keys = {"timeout"}
    /\ doc_facts.config_keys = {"timeout"}
    /\ FreshKeys = {"max_tokens"}
    /\ ~comparison.is_stale
    /\ \E r \in compare_facts(with_config_key(source_facts, "max_tokens"),
                              doc_facts) :
           r.is_stale /\ r.missing_config_keys = <<"max_tokens">>

\* C5: a second evaluation of compare_facts on the same fact sets returns
\* the same report, with every list in the same order.
C5_Deterministic ==
    [][(pc = "compared" /\ pc' = "recompared") => comparison' = comparison]_vars

(***************************************************************************)
(* Properties of extract_facts followed by compare_facts (SpecText).       *)
(***************************************************************************)
\* C3: when the source text and the doc text are the same text, the
\* comparison of their extracted facts is not stale, scores 0 and lists
\* nothing as missing or extra.
C3_IdenticalTexts ==
    (Compared /\ source_text = doc_text) =>
        /\ ~comparison.is_stale
        /\ comparison.staleness_score = 0
        /\ comparison.missing_config_keys = <<>>
        /\ comparison.extra_config_keys = <<>>
        /\ comparison.missing_models = <<>>
        /\ comparison.extra_models = <<>>
        /\ comparison.missing_sections = <<>>
        /\ comparison.missing_features = <<>>

\* one text with a config key, a model and a section, compared with itself
C3_Witness ==
    /\ pc = "compared"
    /\ source_text = doc_text
    /\ source_facts.config_keys = {"max_tokens"}
    /\ source_facts.models = {"claude-opus-4"}
    /\ source_facts.sections = {"usage"}
    /\ source_facts.features = {"token"}
    /\ comparison.staleness_score = 0

\* the lines of a text of the given kinds whose word, in any letter case, is w
Mentions(text, kinds, w) ==
    {i \in DOMAIN text : text[i].kind \in kinds /\ str_lower(text[i].word) = w}

\* C12: whatever the text, no extracted config key is a word of the noise
\* vocabulary ("type", "default", ...) and none has length 2 or less,
\* whether the candidate stood in a table cell or in a definition and
\* whatever its letter case.
C12_NoNoiseKeys ==
    pc \in {"facts", "compared", "recompared"} =>
        \A facts \in {source_facts, doc_facts} :
            \A key \in facts.config_keys :
                /\ str_lower(key) \notin noise
                /\ key \notin {"type", "default"}
                /\ Len(key) > 2

\* a text with | `Type` |, **Default**: and | `max_tokens` | gave the single
\* key max_tokens
C12_Witness ==
    /\ pc = "facts"
    /\ Mentions(source_text, {"cell"}, "type") # {}
    /\ Mentions(source_text, {"defn_bold"}, "default") # {}
    /\ Mentions(source_text, {"cell"}, "max_tokens") # {}
    /\ "Type" \in {source_text[i].word : i \in DOMAIN source_text}
    /\ source_facts.config_keys = {"max_tokens"}

\* the fenced code blocks of a markdown text from line i on, as pairs of
\* opening and closing line: a fence line with any info string opens a
\* block and the next fence line without info string closes it
RECURSIVE FencedBlocks(_, _)
FencedBlocks(text, i) ==
    IF i > Len(text) THEN {}
    ELSE IF text[i].kind # "fence" THEN FencedBlocks(text, i + 1)
    ELSE LET closers == {j \in (i + 1)..Len(text) :
                            text[j].kind = "fence" /\ text[j].word = ""}
         IN  IF closers = {} THEN {}
             ELSE LET c == CHOOSE j \in closers : \A k \in closers : j <= k
                  IN  {<<i, c>>} \cup FencedBlocks(text, c + 1)

InsideBlock(text, i) ==
    \E b \in FencedBlocks(text, 1) : b[1] < i /\ i < b[2]

KeyLines == {"cell", "defn_bold", "defn_tick"}

\* C13: a config key that the text mentions only inside fenced code blocks,
\* whatever the info string of the opening fence, is not in config_keys,
\* while a model named inside a fenced code block is in models.
C13_CodeBlocksExcluded ==
    pc \in {"facts", "compared", "recompared"} =>
        \A i \in DOMAIN source_text :
            LET w == str_lower(source_text[i].word)
            IN  /\ (/\ source_text[i].kind \in KeyLines
                    /\ \A j \in Mentions(source_text, KeyLines, w) :
                          InsideBlock(source_text, j))
                   => w \notin source_facts.config_keys
                /\ (/\ InsideBlock(source_text, i)
                    /\ source_text[i] = Piece("prose", "claude-opus-4"))
                   => "claude-opus-4" \in source_facts.models

(***************************************************************************)
(* Properties of analyze_mapping (Spec, FairSpec).                         *)
(***************************************************************************)
\* what the manifest and the disk say about an entry
DeclaredSkipped(s) == s.relationship_type = "N/A" \/ Len(s.sources) = 0

DocOnDisk(s) ==
    \E f \in DOMAIN DocFiles : s.doc_path = f \/ s.doc_path = "docs/" \o f

Resolves(source) ==
    LET target == source.repo \o "/" \o source.path
    IN  target \in DOMAIN RepoFiles \/ glob_matches(target) # {}

NoSourceResolves(s) == \A i \in DOMAIN s.sources : ~Resolves(s.sources[i])

DeclaredPriority(s) == IF s.priority = None THEN "medium" ELSE s.priority

\* a step of the loop body
Iteration == InLoop /\ idx' = idx + 1

\* C6: an entry with relationship_type "N/A" or without sources only adds 1
\* to total_sections: no other counter and no collection changes.
C6_SkippedExcluded ==
    [][(Iteration /\ DeclaredSkipped(section)) =>
          results' = [results EXCEPT !.summary.total_sections = @ + 1]]_vars

\* an entry without sources whose doc file is missing and an "N/A" entry
\* whose doc file exists have both been passed over
C6_Witness ==
    /\ idx = 2
    /\ Len(outline[1].sources) = 0 /\ ~DocOnDisk(outline[1])
    /\ outline[2].relationship_type = "N/A" /\ DocOnDisk(outline[2])
    /\ Len(outline[2].sources) > 0
    /\ results = [NewResults EXCEPT !.summary.total_sections = 2]

C8_MissingDocRecorded ==
    [][(Iteration /\ ~DeclaredSkipped(section) /\ ~DocOnDisk(section)) =>
          results' =
            [results EXCEPT
               !.summary.total_sections = @ + 1,
               !.summary.missing_doc = @ + 1,
               !.missing_docs =
                  Append(@, [section_id |-> section.id,
                             doc_path |-> section.doc_path,
                             priority |-> DeclaredPriority(section)])]]_vars

\* two entries without doc, the first with a source that exists and the
\* second without any, are both filed under missing_docs
C8_Witness ==
    /\ idx = 2
    /\ ~DeclaredSkipped(outline[1]) /\ ~DocOnDisk(outline[1])
    /\ ~NoSourceResolves(outline[1]) /\ outline[1].priority = "high"
    /\ ~DeclaredSkipped(outline[2]) /\ ~DocOnDisk(outline[2])
    /\ NoSourceResolves(outline[2])
    /\ results.summary.missing_doc = 2
    /\ results.summary.missing_source = 0
    /\ results.missing_docs[1].priority = "high"
    /\ results.missing_docs[2].section_id = outline[2].id

\* C9: for a non-skipped entry whose doc exists, the aggregate source text is
\* empty exactly when no source was found, which is exactly when no declared
\* reference resolves; then only missing_source (and total_sections) grows,
\* and otherwise the entry is analyzed.
C9_MissingSourceIff ==
    [][(Iteration /\ ~DeclaredSkipped(section) /\ DocOnDisk(section)) =>
          /\ (frame'.source_content = <<>>) <=> (frame'.sources_found = 0)
          /\ (frame'.sources_found = 0) <=> NoSourceResolves(section)
          /\ NoSourceResolves(section) =>
                results' = [results EXCEPT
                              !.summary.total_sections = @ + 1,
                              !.summary.missing_source = @ + 1]
          /\ ~NoSourceResolves(section) =>
                /\ results'.summary.analyzed = results.summary.analyzed + 1
                /\ results'.summary.stale + results'.summary.healthy =
                      results.summary.stale + results.summary.healthy + 1
                /\ results'.summary.missing_source =
                      results.summary.missing_source]_vars

\* an entry whose only source is missing, then an entry whose only source is
\* an empty file: the first counts as missing source, the second is analyzed
C9_Witness ==
    /\ idx = 2
    /\ outline[1].sources = <<Gone>> /\ DocOnDisk(outline[1])
    /\ ~DeclaredSkipped(outline[1])
    /\ outline[2].sources = <<Empty>> /\ DocOnDisk(outline[2])
    /\ ~DeclaredSkipped(outline[2])
    /\ frame.sources_found = 1 /\ frame.source_content = <<Blank>>
    /\ results.summary.missing_source = 1
    /\ results.summary.analyzed = 1

RecordedIds ==
    {results.stale_docs[i].section_id : i \in DOMAIN results.stale_docs}
    \cup {results.healthy_docs[i].section_id : i \in DOMAIN results.healthy_docs}
    \cup {results.missing_docs[i].section_id : i \in DOMAIN results.missing_docs}

\* C10: every processed entry whose doc exists and whose single source path
\* does not exist on disk is identified by a record in the results.
C10_MissingSourceIdentified ==
    \A i \in 1..idx :
        (/\ ~DeclaredSkipped(outline[i])
         /\ DocOnDisk(outline[i])
         /\ Len(outline[i].sources) = 1
         /\ ~Resolves(outline[i].sources[1]))
        => outline[i].id \in RecordedIds

(***************************************************************************)
(* Properties of the returned results (Spec).                              *)
(***************************************************************************)
PriorityRank(p) ==
    CASE p = "high" -> 0 [] p = "medium" -> 1 [] p = "low" -> 2

\* the position in the manifest of the entry a record is about
ManifestPosition(rec) == CHOOSE i \in DOMAIN outline : outline[i].id = rec.section_id

Score(rec) == rec.comparison.staleness_score

\* C11: in the returned results, each stale record has a lower priority rank
\* (high 0, medium 1, low 2) than its successor, or the same rank and a score
\* at least as high; with equal rank and score the two keep manifest order;
\* the sort happens once, after the loop, and only reorders the records.
C11_StaleDocsSorted ==
    /\ [](pc = "done" =>
            \A k \in 1..(Len(results.stale_docs) - 1) :
                LET a == results.stale_docs[k]
                    b == results.stale_docs[k + 1]
                IN  \/ PriorityRank(a.priority) < PriorityRank(b.priority)
                    \/ /\ PriorityRank(a.priority) = PriorityRank(b.priority)
                       /\ Score(a) > Score(b)
                    \/ /\ PriorityRank(a.priority) = PriorityRank(b.priority)
                       /\ Score(a) = Score(b)
                       /\ ManifestPosition(a) < ManifestPosition(b))
    /\ [][(pc = "loop" /\ pc' = "done") =>
            /\ idx = Len(outline)
            /\ Len(results'.stale_docs) = Len(results.stale_docs)
            /\ Range(results'.stale_docs) = Range(results.stale_docs)
            /\ results' = [results EXCEPT !.stale_docs = results'.stale_docs]]_vars
    /\ [][pc = "loop" /\ pc' = "loop" =>
            \/ results'.stale_docs = results.stale_docs
            \/ \E rec \in Range(results'.stale_docs) :
                  results'.stale_docs = Append(results.stale_docs, rec)]_vars

\* three stale records: the high-priority one, second in the manifest and of
\* lower score, was moved to the front; the two medium ones with equal score
\* follow in manifest order
C11_Witness ==
    /\ pc = "done"
    /\ Len(results.stale_docs) = 3
    /\ results.stale_docs[1].priority = "high"
    /\ results.stale_docs[2].priority = "medium"
    /\ results.stale_docs[3].priority = "medium"
    /\ Score(results.stale_docs[1]) < Score(results.stale_docs[2])
    /\ Score(results.stale_docs[2]) = Score(results.stale_docs[3])
    /\ results.stale_docs[1].section_id = "s2"
    /\ results.stale_docs[2].section_id = "s1"
    /\ results.stale_docs[3].section_id = "s3"

(***************************************************************************)
(* Properties of transform_csv_to_outline (SpecCsv).                       *)
(***************************************************************************)
\* C14: the written manifest has one entry per CSV row, in row order, and
\* entries for distinct documentation paths have distinct ids.
C14_UniqueIds ==
    pc = "written" =>
        /\ Len(outline) = Len(rows)
        /\ \A i \in DOMAIN outline : outline[i].doc_path = str_join(rows[i].page)
        /\ \A i, j \in DOMAIN outline :
              outline[i].doc_path # outline[j].doc_path
                 => outline[i].id # outline[j].id

(***************************************************************************)
(* The list of missing sections in the report of compare_facts (SpecFacts).*)
(***************************************************************************)
MissingSections == {x \in source_facts.sections : x \notin doc_facts.sections}

ScoreWithoutSections ==
    3 * OnlyIn(source_facts.config_keys, doc_facts.config_keys)
    + 3 * OnlyIn(source_facts.models, doc_facts.models)
    + 3 * OnlyIn(doc_facts.models, source_facts.models)
    + 1 * OnlyIn(source_facts.features, doc_facts.features)

\* C15: the reported missing_sections list has at most 10 entries, without
\* repetition, all of them sections of the source that the doc lacks; it is
\* the whole difference when that has at most 10 elements; the score counts
\* 2 for every missing section, listed or not.
C15_MissingSectionsCapped ==
    Compared =>
        LET shown == comparison.missing_sections
        IN  /\ Len(shown) <= 10
            /\ Range(shown) \subseteq MissingSections
            /\ Cardinality(Range(shown)) = Len(shown)
            /\ Cardinality(MissingSections) <= 10
                  => Range(shown) = MissingSections
            /\ comparison.staleness_score =
                  ScoreWithoutSections + 2 * Cardinality(MissingSections)

\* eleven sections are missing, ten are listed and the score counts eleven
C15_Witness ==
    /\ pc = "compared"
    /\ Cardinality(MissingSections) = 11
    /\ Len(comparison.missing_sections) = 10
    /\ ScoreWithoutSections = 1
    /\ comparison.staleness_score = 23

(***************************************************************************)
(* Source resolution in analyze_mapping (Spec).                            *)
(***************************************************************************)
Target(source) == source.repo \o "/" \o source.path

Min(a, b) == IF a < b THEN a ELSE b

\* the number of files a reference makes the analyzer read
FilesToRead(source) ==
    IF has_wildcard(source.path)
    THEN Min(5, Cardinality(glob_matches(Target(source))))
    ELSE IF Target(source) \in DOMAIN RepoFiles THEN 1 ELSE 0

RECURSIVE SumFilesToRead(_)
SumFilesToRead(sources) ==
    IF sources = <<>> THEN 0
    ELSE FilesToRead(Head(sources)) + SumFilesToRead(Tail(sources))

\* every file read ends with the separator, and no file holds one
FilesRead(source_content) ==
    Cardinality({i \in DOMAIN source_content : source_content[i] = Blank})

\* an iteration that gets as far as resolving the sources
Resolution == Iteration /\ ~DeclaredSkipped(section) /\ DocOnDisk(section)

\* C16: a reference with "*" makes the analyzer read the matched files, 5 at
\* most, counts as one found source when at least one file matches and is
\* listed in sources_missing exactly when none does; a literal path is read
\* and counted when it exists and is listed as missing otherwise.
C16_GlobCapped ==
    [][Resolution =>
          /\ FilesRead(frame'.source_content) = SumFilesToRead(section.sources)
          /\ frame'.sources_found =
                Cardinality({i \in DOMAIN section.sources :
                                FilesToRead(section.sources[i]) > 0})
          /\ \A i \in DOMAIN section.sources :
                LET source == section.sources[i]
                IN  (Target(source) \in Range(frame'.sources_missing))
                    <=> IF has_wildcard(source.path)
                        THEN glob_matches(Target(source)) = {}
                        ELSE Target(source) \notin DOMAIN RepoFiles]_vars

\* after an entry whose pattern matches nothing and whose literal path is
\* absent, an entry whose pattern matches six files and whose literal path
\* exists: five files and the literal one were read, two sources found
C16_Witness ==
    /\ idx = 2
    /\ outline[1].sources = <<NoneGlob, Gone>>
    /\ results.summary.missing_source = 1
    /\ outline[2].sources = <<SrcGlob, Empty>>
    /\ Cardinality(glob_matches(Target(SrcGlob))) = 6
    /\ FilesRead(frame.source_content) = 6
    /\ frame.sources_found = 2
    /\ frame.sources_missing = <<>>
    /\ results.summary.analyzed = 1

\* the texts of the given files, each followed by the separator
RECURSIVE TextOf(_)
TextOf(files) ==
    IF files = <<>> THEN <<>>
    ELSE RepoFiles[Head(files)] \o <<Blank>> \o TextOf(Tail(files))

\* what a reference can add to the aggregate source text
Contribution ==
    [source \in {Readme, Empty, Gone, SrcGlob, LibGlob, NoneGlob} |->
        IF has_wildcard(source.path)
        THEN {TextOf(SubSeq(files, 1, FilesToRead(source))) :
                 files \in Orderings(glob_matches(Target(source)))}
        ELSE IF Target(source) \in DOMAIN RepoFiles
             THEN {TextOf(<<Target(source)>>)}
             ELSE {<<>>}]

\* the texts made of one contribution per reference, in declaration order
RECURSIVE ContributionsOf(_)
ContributionsOf(sources) ==
    IF sources = <<>> THEN {<<>>}
    ELSE {part \o rest : part \in Contribution[Head(sources)],
                         rest \in ContributionsOf(Tail(sources))}

DeclaredContents ==
    [sources \in {t.sources : t \in SectionTemplates} |->
        ContributionsOf(sources)]

InDeclarationOrder(source_content, sources) ==
    source_content \in DeclaredContents[sources]

\* the references that do not resolve, as repo/path, in declaration order
RECURSIVE Unresolved(_)
Unresolved(sources) ==
    IF sources = <<>> THEN <<>>
    ELSE (IF Resolves(Head(sources)) THEN <<>> ELSE <<Target(Head(sources))>>)
         \o Unresolved(Tail(sources))

\* the record the iteration appended to stale_docs or healthy_docs
NewRecord ==
    IF Len(results'.stale_docs) > Len(results.stale_docs)
    THEN results'.stale_docs[Len(results'.stale_docs)]
    ELSE results'.healthy_docs[Len(results'.healthy_docs)]

\* C17: every declared reference is resolved, also behind a missing one; the
\* aggregate text is the found content in declaration order; sources_missing
\* lists the unresolved references as repo/path in declaration order and
\* sources_found + |sources_missing| is the number of declared references,
\* in the record of every analyzed entry.
C17_SourcesAccounted ==
    [][Resolution =>
          /\ InDeclarationOrder(frame'.source_content, section.sources)
          /\ frame'.sources_missing = Unresolved(section.sources)
          /\ frame'.sources_found + Len(frame'.sources_missing)
                = Len(section.sources)
          /\ ~NoSourceResolves(section) =>
                /\ Len(results'.stale_docs) + Len(results'.healthy_docs)
                      = Len(results.stale_docs) + Len(results.healthy_docs) + 1
                /\ NewRecord.section_id = section.id
                /\ NewRecord.sources_found = frame'.sources_found
                /\ NewRecord.sources_missing = frame'.sources_missing
                /\ NewRecord.sources_found + Len(NewRecord.sources_missing)
                      = Len(section.sources)]_vars

\* an analyzed entry whose first and third reference are missing and whose
\* second one was read
C17_Witness ==
    /\ idx = 1
    /\ outline[1].sources = <<Gone, Readme, NoneGlob>>
    /\ frame.source_content = ReadmeText \o <<Blank>>
    /\ Len(results.healthy_docs) = 1
    /\ results.healthy_docs[1].sources_found = 1
    /\ results.healthy_docs[1].sources_missing
          = <<"core/gone.md", "core/none/*.py">>

(***************************************************************************)
(* The summary of the returned results (Spec).                             *)
(***************************************************************************)
SkippedEntries == {i \in DOMAIN outline : DeclaredSkipped(outline[i])}

\* C18: in the returned results the counters agree with the collections:
\* analyzed = stale + healthy, stale, healthy and missing_doc are the lengths
\* of their lists, every entry has exactly one outcome (skipped, missing
\* doc, missing source, analyzed); stale records have is_stale true; healthy
\* records have is_stale false, a score of 4 at most and no missing config
\* key, missing model or extra model.
C18_SummaryConsistent ==
    pc = "done" =>
        LET summary == results.summary
        IN  /\ summary.analyzed = summary.stale + summary.healthy
            /\ summary.stale = Len(results.stale_docs)
            /\ summary.healthy = Len(results.healthy_docs)
            /\ summary.missing_doc = Len(results.missing_docs)
            /\ summary.total_sections =
                  Cardinality(SkippedEntries) + summary.missing_doc
                  + summary.missing_source + summary.analyzed
            /\ \A i \in DOMAIN results.stale_docs :
                  /\ results.stale_docs[i].is_stale
                  /\ results.stale_docs[i].comparison.is_stale
            /\ \A i \in DOMAIN results.healthy_docs :
                  LET rec == results.healthy_docs[i]
                  IN  /\ ~rec.is_stale
                      /\ ~rec.comparison.is_stale
                      /\ Score(rec) <= 4
                      /\ rec.comparison.missing_config_keys = <<>>
                      /\ rec.comparison.missing_models = <<>>
                      /\ rec.comparison.extra_models = <<>>

\* a finished run over three entries: one without source, one stale, one
\* healthy with a score of 2
C18_Witness ==
    /\ pc = "done"
    /\ Len(outline) = 3
    /\ results.summary.missing_source = 1
    /\ results.summary.stale = 1
    /\ results.summary.healthy = 1
    /\ Score(results.healthy_docs[1]) = 2
    /\ Score(results.stale_docs[1]) >= 3

====
